---- MODULE Spec2Model ----
(***************************************************************************)
(* A model of the rate limiter, the conversation store, the retrying       *)
(* Gemini client and the daily conversation sweep of bot.py.               *)
(*                                                                         *)
(* The bot runs on one asyncio event loop: a handler runs uninterrupted    *)
(* from one awaited I/O operation to the next.  RateLimiter.add_call and   *)
(* RateLimiter.get_retry_after are coroutines that contain no await of     *)
(* their own, so awaiting them never yields to the loop.  Every action     *)
(* below is one such uninterrupted segment.                                *)
(*                                                                         *)
(* Time is an integer clock `now` read by time.time() and datetime.now().  *)
(***************************************************************************)
EXTENDS Integers, Sequences, FiniteSets, TLC

VARIABLES
    now,            \* the wall clock
    user_limiter,   \* RateLimiter object: [max_calls, time_frame, calls]
    global_limiter, \* RateLimiter object: [max_calls, time_frame, calls]
    conversations,  \* dict conversation_key -> [chat, created_at]
    chats,          \* heap of ChatSession objects: chat id -> history
    handlers,       \* the running command / mention handlers
    next_reap,      \* next scheduled run of check_conversation_age
    nreq,           \* number of requests received so far
    last,           \* the operation performed by the last step and its result
    ext_log,        \* history: the calls made to the Gemini service
    log             \* history kept by the limiter test: every add_call made

vars == <<now, user_limiter, global_limiter, conversations, chats, handlers,
          next_reap, nreq, last, ext_log, log>>

(***************************************************************************)
(* Bounds of the model.                                                    *)
(***************************************************************************)
\* Last clock value of the limiter test runs.
MaxTestTime == 12
\* Number of add_call invocations of the limiter test runs.
MaxTestCalls == 5

\* The limiter built by test_rate_limiting: RateLimiter(max_calls=3, time_frame=10).
TestMaxCalls == 3
TestTimeFrame == 10

Max(a, b) == IF a >= b THEN a ELSE b

\* min() of a non-empty list of numbers.
Min(s) == CHOOSE m \in {s[i] : i \in 1..Len(s)} : \A i \in 1..Len(s) : m <= s[i]

(***************************************************************************)
(* RateLimiter                                                             *)
(***************************************************************************)
\* RateLimiter.__init__: calls is an empty defaultdict(list).
RateLimiter(max_calls, time_frame) ==
    [max_calls |-> max_calls, time_frame |-> time_frame, calls |-> <<>>]

\* Reading d[key] of a defaultdict(list): the stored list, [] for a new key.
Get(d, key) == IF key \in DOMAIN d THEN d[key] ELSE <<>>

\* d[key] = value
Put(d, key, value) ==
    [k \in (DOMAIN d) \cup {key} |-> IF k = key THEN value ELSE d[k]]

\* Mutant: a call exactly time_frame old still counts.
Prune_inclusive(calls, current_time, time_frame) ==
    SelectSeq(calls, LAMBDA call_time : current_time - call_time <= time_frame)

\* [call_time for call_time in calls if current_time - call_time < time_frame]
Prune(calls, current_time, time_frame) ==
    SelectSeq(calls, LAMBDA call_time : current_time - call_time < time_frame)

\* Mutant: the capacity test is off by one (> instead of >=).
add_call_off_by_one(self, key, current_time) ==
    LET pruned == Prune(Get(self.calls, key), current_time, self.time_frame)
    IN  IF Len(pruned) > self.max_calls
        THEN [self |-> [self EXCEPT !.calls = Put(self.calls, key, pruned)],
              ret  |-> TRUE]
        ELSE [self |-> [self EXCEPT !.calls =
                           Put(self.calls, key, Append(pruned, current_time))],
              ret  |-> FALSE]

\* Mutant: a rejected call is recorded too.
add_call_records_rejected(self, key, current_time) ==
    LET pruned == Prune(Get(self.calls, key), current_time, self.time_frame)
    IN  [self |-> [self EXCEPT !.calls =
                      Put(self.calls, key, Append(pruned, current_time))],
         ret  |-> Len(pruned) >= self.max_calls]

\* Mutant: the pruned list is used for the test but not stored.
add_call_keeping_expired(self, key, current_time) ==
    LET calls == Get(self.calls, key)
        pruned == Prune(calls, current_time, self.time_frame)
    IN  IF Len(pruned) >= self.max_calls
        THEN [self |-> [self EXCEPT !.calls = Put(self.calls, key, calls)],
              ret  |-> TRUE]
        ELSE [self |-> [self EXCEPT !.calls =
                           Put(self.calls, key, Append(calls, current_time))],
              ret  |-> FALSE]

\* RateLimiter.add_call at time current_time: the limiter afterwards and the
\* value returned (TRUE: rate limited).
add_call(self, key, current_time) ==
    LET pruned == Prune(Get(self.calls, key), current_time, self.time_frame)
    IN  IF Len(pruned) >= self.max_calls
        THEN [self |-> [self EXCEPT !.calls = Put(self.calls, key, pruned)],
              ret  |-> TRUE]
        ELSE [self |-> [self EXCEPT !.calls =
                           Put(self.calls, key, Append(pruned, current_time))],
              ret  |-> FALSE]

\* Mutant: the oldest call is taken among the calls still within the window.
get_retry_after_pruning(self, key, current_time) ==
    LET pruned == Prune(Get(self.calls, key), current_time, self.time_frame)
    IN  [self |-> [self EXCEPT !.calls = Put(self.calls, key, Get(self.calls, key))],
         ret  |-> IF pruned = <<>> THEN 0
                  ELSE Max(0, self.time_frame - (current_time - Min(pruned)))]

\* Mutant: the remaining time is not clamped at the window's end.
get_retry_after_frozen(self, key, current_time) ==
    LET calls == Get(self.calls, key)
    IN  [self |-> [self EXCEPT !.calls = Put(self.calls, key, calls)],
         ret  |-> IF calls = <<>> THEN 0
                  ELSE Max(1, self.time_frame - (current_time - Min(calls)))]

\* RateLimiter.get_retry_after at time current_time.  Reading self.calls[key]
\* creates the key; the list is not pruned.
get_retry_after(self, key, current_time) ==
    LET calls == Get(self.calls, key)
    IN  [self |-> [self EXCEPT !.calls = Put(self.calls, key, calls)],
         ret  |-> IF calls = <<>> THEN 0
                  ELSE Max(0, self.time_frame - (current_time - Min(calls)))]

(***************************************************************************)
(* The limiter on its own, as test_rate_limiting builds it: one key, calls *)
(* and queries at arbitrary non-decreasing times.                          *)
(***************************************************************************)
TestKey == "test_user"

NoOp == [op |-> "init"]

\* In the history: get_retry_after was not called right after this add_call.
NotAsked == -1

InitTest ==
    /\ now = 0
    /\ user_limiter = RateLimiter(TestMaxCalls, TestTimeFrame)
    /\ global_limiter = RateLimiter(TestMaxCalls, TestTimeFrame)
    /\ conversations = <<>>
    /\ chats = <<>>
    /\ handlers = <<>>
    /\ next_reap = 0
    /\ nreq = 0
    /\ last = NoOp
    /\ ext_log = <<>>
    /\ log = <<>>

\* asyncio.sleep in the test: the clock advances.
TestTick ==
    /\ now < MaxTestTime
    /\ now' = now + 1
    /\ last' = [op |-> "tick"]
    /\ UNCHANGED <<user_limiter, global_limiter, conversations, chats, handlers,
                   next_reap, nreq, ext_log, log>>

\* is_limited = await user_limiter.add_call("test_user")
TestAddCall ==
    /\ Len(log) < MaxTestCalls
    /\ LET r == add_call(user_limiter, TestKey, now)
       IN  /\ user_limiter' = r.self
           /\ last' = [op |-> "add_call", key |-> TestKey, ret |-> r.ret]
           /\ log' = Append(log, [t |-> now, limited |-> r.ret, retry |-> NotAsked])
    /\ UNCHANGED <<now, global_limiter, conversations, chats, handlers,
                   next_reap, nreq, ext_log>>

\* await user_limiter.get_retry_after("test_user").  The history notes the
\* answer with the rejected add_call it directly follows, if any.
TestGetRetryAfter ==
    /\ LET r == get_retry_after(user_limiter, TestKey, now)
       IN  /\ user_limiter' = r.self
           /\ last' = [op |-> "get_retry_after", key |-> TestKey, ret |-> r.ret]
           /\ log' = IF last.op = "add_call" /\ last.ret
                     THEN [log EXCEPT ![Len(log)].retry = r.ret]
                     ELSE log
    /\ UNCHANGED <<now, global_limiter, conversations, chats, handlers,
                   next_reap, nreq, ext_log>>

NextTest == TestTick \/ TestAddCall \/ TestGetRetryAfter

SpecTest == InitTest /\ [][NextTest]_vars

(***************************************************************************)
(* The bot.                                                                *)
(*                                                                         *)
(* The configuration is scaled down: bot.py builds RateLimiter(5, 60) per  *)
(* user and RateLimiter(30, 60) globally, keeps a conversation 7 days and  *)
(* sweeps every 24 hours.  The limits below are small enough for either    *)
(* limiter to be the only one that turns a request down within             *)
(* MaxRequests requests of two users.                                      *)
(***************************************************************************)
\* Last clock value.
MaxTime == 3
\* Number of requests (commands that reach the limiters or the service).
MaxRequests == 2
\* user_limiter = RateLimiter(max_calls=5, time_frame=60), scaled down.
UserMaxCalls == 1
UserWindow == 3
\* global_limiter = RateLimiter(max_calls=30, time_frame=60), scaled down.
GlobalMaxCalls == 1
GlobalWindow == 2
\* timedelta(days=7), scaled down.
SessionTTL == 1
\* tasks.loop(hours=24), scaled down.
ReapInterval == 1

\* get_gemini_response: max_retries = 3, retry_delay = 2.
max_retries == 3
retry_delay == 2

Users == {"u1", "u2"}
\* The handlers that can be running at once.
Handlers == {1, 2}
GlobalKey == "global"

\* bot_template: the four opening turns.
bot_template ==
    << <<"user", "Hi!">>, <<"model", "Hello!">>,
       <<"user", "Please give helpful and concise answers.">>,
       <<"model", "I'll do my best">> >>

\* conversation_key = f"user:{user_id}"
conversation_key(user_id) == <<"user", user_id>>

\* No ChatSession.
NoChat == 0

Idle ==
    [pc |-> "idle", kind |-> "none", user |-> "none", q |-> 0,
     is_user_limited |-> FALSE, is_global_limited |-> FALSE,
     conv |-> NoChat, attempt |-> 0, delay |-> 0, wake |-> 0,
     sleeps |-> <<>>, calls |-> 0, outcome |-> "none", retry_after |-> 0,
     e |-> "none"]

Init ==
    /\ now = 0
    /\ user_limiter = RateLimiter(UserMaxCalls, UserWindow)
    /\ global_limiter = RateLimiter(GlobalMaxCalls, GlobalWindow)
    /\ conversations = <<>>
    /\ chats = <<>>
    /\ handlers = [h \in Handlers |-> Idle]
    /\ next_reap = 0
    /\ nreq = 0
    /\ last = NoOp
    /\ ext_log = <<>>
    /\ log = <<>>

\* The clock advances; tasks.loop runs the sweep on time, before it does.
Tick ==
    /\ now < MaxTime
    /\ now < next_reap
    /\ now' = now + 1
    /\ last' = [op |-> "tick"]
    /\ UNCHANGED <<user_limiter, global_limiter, conversations, chats, handlers,
                   next_reap, nreq, ext_log, log>>

(***************************************************************************)
(* The conversation store.                                                 *)
(***************************************************************************)
\* The id of the next ChatSession object: the first one not in use.
NewChat(heap) ==
    CHOOSE c \in 1..(Cardinality(DOMAIN heap) + 1) :
        /\ c \notin DOMAIN heap
        /\ \A b \in 1..(c - 1) : b \in DOMAIN heap

\* Garbage collection: a ChatSession that neither the store nor a running
\* handler refers to is gone.
Collect(heap, convs, hs) ==
    [c \in {c \in DOMAIN heap :
               \/ \E k \in DOMAIN convs : convs[k].chat = c
               \/ \E h \in DOMAIN hs : hs[h].conv = c} |-> heap[c]]

\* Mutant: the conversation is created anew even when the user has one.
get_conversation_always_new(convs, heap, user_id, t, ok) ==
    IF ok
    THEN [conversations |-> Put(convs, conversation_key(user_id),
                                [chat |-> NewChat(heap), created_at |-> t]),
          chats |-> Put(heap, NewChat(heap),
                       [owner |-> user_id, history |-> bot_template,
                        deleted |-> FALSE]),
          ret |-> NewChat(heap)]
    ELSE [conversations |-> convs, chats |-> heap, ret |-> NoChat]

\* Mutant: using the conversation restarts its 7 days.
get_conversation_refreshing(convs, heap, user_id, t, ok) ==
    LET key == conversation_key(user_id)
    IN  IF key \notin DOMAIN convs
        THEN get_conversation_always_new(convs, heap, user_id, t, ok)
        ELSE [conversations |-> [convs EXCEPT ![key].created_at = t],
              chats |-> heap, ret |-> convs[key].chat]

\* Mutant: the entry is stored before start_chat has answered, so a failed
\* creation leaves an entry without a chat.
get_conversation_partial(convs, heap, user_id, t, ok) ==
    LET key == conversation_key(user_id)
    IN  IF key \notin DOMAIN convs /\ ~ok
        THEN [conversations |-> Put(convs, key, [created_at |-> t]),
              chats |-> heap, ret |-> NoChat]
        ELSE IF key \notin DOMAIN convs
        THEN get_conversation_always_new(convs, heap, user_id, t, ok)
        ELSE [conversations |-> convs, chats |-> heap, ret |-> convs[key].chat]

\* Mutant: the chat is started without the template.
get_conversation_no_template(convs, heap, user_id, t, ok) ==
    LET key == conversation_key(user_id)
    IN  IF key \notin DOMAIN convs /\ ok
        THEN [conversations |-> Put(convs, key,
                                    [chat |-> NewChat(heap), created_at |-> t]),
              chats |-> Put(heap, NewChat(heap),
                            [owner |-> user_id, history |-> <<>>,
                             deleted |-> FALSE]),
              ret |-> NewChat(heap)]
        ELSE IF key \notin DOMAIN convs
        THEN [conversations |-> convs, chats |-> heap, ret |-> NoChat]
        ELSE [conversations |-> convs, chats |-> heap, ret |-> convs[key].chat]

\* get_conversation(user_id) at time t; ok: text_model.start_chat does not
\* raise.  The store and the heap afterwards and the chat returned (NoChat:
\* the exception is raised again).
get_conversation(convs, heap, user_id, t, ok) ==
    LET key == conversation_key(user_id)
    IN  IF key \notin DOMAIN convs
        THEN IF ok
             THEN [conversations |-> Put(convs, key,
                                         [chat |-> NewChat(heap), created_at |-> t]),
                   chats |-> Put(heap, NewChat(heap),
                                 [owner |-> user_id, history |-> bot_template,
                                  deleted |-> FALSE]),
                   ret |-> NewChat(heap)]
             ELSE [conversations |-> convs, chats |-> heap, ret |-> NoChat]
        ELSE [conversations |-> convs, chats |-> heap, ret |-> convs[key].chat]

\* The heap once the conversations under `keys` have left the store: their
\* ChatSession objects are noted as deleted (they live on while a handler
\* holds them).
Detach(convs, heap, keys) ==
    [c \in DOMAIN heap |->
        IF \E k \in keys \cap DOMAIN convs : convs[k].chat = c
        THEN [heap[c] EXCEPT !.deleted = TRUE]
        ELSE heap[c]]

\* Removing a set of keys from a dict.
DelAll(d, keys) == [k \in (DOMAIN d) \ keys |-> d[k]]

(***************************************************************************)
(* ask and the mention branch of on_message.                               *)
(***************************************************************************)
\* Mutant: only the user's own limit stops a request.
rejection_user_only(is_user_limited, is_global_limited) ==
    IF is_user_limited THEN "user_limited" ELSE "none"

\* Mutant: the global limit is reported before the user's.
rejection_global_first(is_user_limited, is_global_limited) ==
    IF is_global_limited THEN "global_limited"
    ELSE IF is_user_limited THEN "user_limited"
    ELSE "none"

\* The rejection shown for the two answers of add_call: the user's limit
\* first, then the global one.
rejection(is_user_limited, is_global_limited) ==
    IF is_user_limited THEN "user_limited"
    ELSE IF is_global_limited THEN "global_limited"
    ELSE "none"

\* Mutant: the backoff sleep holds the event loop, so that no request is
\* taken while a handler sleeps.
Free_loop_blocked(h) ==
    /\ handlers[h].pc = "idle"
    /\ \A g \in DOMAIN handlers : handlers[g].pc # "sleep"

\* The slot of a handler that is not running is free for the next request,
\* which takes the first free slot.
Free(h) == handlers[h].pc = "idle"

\* A handler that has returned leaves its slot; what it did stays in `last`.
Slot(hr) == IF hr.pc = "done" THEN Idle ELSE hr

\* A request arrives (>ask, or a mention of the bot; empty: the mention
\* holds no question): both limiters are asked, then the request is turned
\* down, greeted, or enters `async with typing()`.  ask and the mention
\* branch run the same code up to there; which of the two the request is
\* shows in the step that follows.
Start(h, user_id, empty) ==
    /\ Free(h)
    /\ \A g \in 1..(h - 1) : ~Free(g)
    /\ nreq < MaxRequests
    /\ LET ru == add_call(user_limiter, user_id, now)
           rg == add_call(global_limiter, GlobalKey, now)
           rej == rejection(ru.ret, rg.ret)
           retry == IF rej = "user_limited"
                    THEN get_retry_after(ru.self, user_id, now)
                    ELSE get_retry_after(rg.self, GlobalKey, now)
           hr == [Idle EXCEPT
                   !.user = user_id, !.q = nreq + 1,
                   !.is_user_limited = ru.ret, !.is_global_limited = rg.ret,
                   !.pc = IF rej # "none" \/ empty THEN "done" ELSE "typing",
                   !.outcome = IF rej # "none" THEN rej
                               ELSE IF empty THEN "greeting" ELSE "none",
                   !.retry_after = IF rej # "none" THEN retry.ret ELSE 0]
       IN  /\ user_limiter' = IF rej = "user_limited" THEN retry.self ELSE ru.self
           /\ global_limiter' = IF rej = "global_limited" THEN retry.self ELSE rg.self
           /\ handlers' = [handlers EXCEPT ![h] = Slot(hr)]
           /\ last' = [op |-> "start", h |-> h, hr |-> hr]
    /\ nreq' = nreq + 1
    /\ UNCHANGED <<now, conversations, chats, next_reap, ext_log, log>>

\* ask, inside typing(): conversation = get_conversation(user_id), then the
\* "processing" embed is sent.
AskGetConversation(h, ok) ==
    /\ handlers[h].pc = "typing"
    /\ LET r == get_conversation(conversations, chats, handlers[h].user, now, ok)
           hr == IF r.ret = NoChat
                 THEN [handlers[h] EXCEPT !.pc = "done", !.outcome = "error",
                                          !.kind = "ask"]
                 ELSE [handlers[h] EXCEPT !.pc = "processing", !.conv = r.ret,
                                          !.delay = retry_delay, !.kind = "ask"]
       IN  /\ conversations' = r.conversations
           /\ handlers' = [handlers EXCEPT ![h] = Slot(hr)]
           /\ chats' = Collect(r.chats, conversations', handlers')
           /\ last' = [op |-> "get_conversation", h |-> h, hr |-> hr]
    /\ UNCHANGED <<now, user_limiter, global_limiter, next_reap, nreq,
                   ext_log, log>>

\* The calls to the service still within the longer limiter window.
RecentLog(t) ==
    SelectSeq(ext_log, LAMBDA e : t - e.t < Max(UserWindow, GlobalWindow))

\* Mutant: the delay is not doubled.
send_message_fixed_delay(hr, result, t) ==
    IF result = "ok"
    THEN [hr EXCEPT !.pc = "done", !.outcome = "ok", !.calls = @ + 1,
                    !.delay = 0, !.wake = 0]
    ELSE IF result = "blocked"
    THEN [hr EXCEPT !.pc = "done", !.outcome = "refusal", !.calls = @ + 1,
                    !.delay = 0, !.wake = 0]
    ELSE IF hr.attempt < max_retries - 1
    THEN [hr EXCEPT !.pc = "sleep", !.wake = t + hr.delay,
                    !.sleeps = Append(@, hr.delay),
                    !.attempt = @ + 1, !.calls = @ + 1]
    ELSE [hr EXCEPT !.pc = "done", !.outcome = "difficulties", !.calls = @ + 1,
                    !.delay = 0, !.wake = 0, !.e = result]

\* Mutant: BlockedPromptException is handled like any other exception.
send_message_blocked_retried(hr, result, t) ==
    IF result = "ok"
    THEN [hr EXCEPT !.pc = "done", !.outcome = "ok", !.calls = @ + 1,
                    !.delay = 0, !.wake = 0]
    ELSE IF hr.attempt < max_retries - 1
    THEN [hr EXCEPT !.pc = "sleep", !.wake = t + hr.delay,
                    !.sleeps = Append(@, hr.delay), !.delay = @ * 2,
                    !.attempt = @ + 1, !.calls = @ + 1]
    ELSE [hr EXCEPT !.pc = "done", !.outcome = "difficulties", !.calls = @ + 1,
                    !.delay = 0, !.wake = 0, !.e = result]

\* Mutant: the last exception is raised again instead of being returned as
\* text.
send_message_reraising(hr, result, t) ==
    IF result = "ok"
    THEN [hr EXCEPT !.pc = "done", !.outcome = "ok", !.calls = @ + 1,
                    !.delay = 0, !.wake = 0]
    ELSE IF result = "blocked"
    THEN [hr EXCEPT !.pc = "done", !.outcome = "refusal", !.calls = @ + 1,
                    !.delay = 0, !.wake = 0]
    ELSE IF hr.attempt < max_retries - 1
    THEN [hr EXCEPT !.pc = "sleep", !.wake = t + hr.delay,
                    !.sleeps = Append(@, hr.delay), !.delay = @ * 2,
                    !.attempt = @ + 1, !.calls = @ + 1]
    ELSE [hr EXCEPT !.pc = "done", !.outcome = "raise", !.calls = @ + 1,
                    !.delay = 0, !.wake = 0, !.e = result]

\* Mutant: the backoff sleep is taken after the last failure too, before the
\* text is returned.
send_message_sleeping_last(hr, result, t) ==
    IF result = "ok"
    THEN [hr EXCEPT !.pc = "done", !.outcome = "ok", !.calls = @ + 1,
                    !.delay = 0, !.wake = 0]
    ELSE IF result = "blocked"
    THEN [hr EXCEPT !.pc = "done", !.outcome = "refusal", !.calls = @ + 1,
                    !.delay = 0, !.wake = 0]
    ELSE IF hr.attempt < max_retries - 1
    THEN [hr EXCEPT !.pc = "sleep", !.wake = t + hr.delay,
                    !.sleeps = Append(@, hr.delay), !.delay = @ * 2,
                    !.attempt = @ + 1, !.calls = @ + 1]
    ELSE [hr EXCEPT !.pc = "done", !.outcome = "difficulties", !.calls = @ + 1,
                    !.sleeps = Append(@, hr.delay),
                    !.delay = 0, !.wake = 0, !.e = result]

\* Mutant: a failed attempt is always followed by another one.
send_message_unbounded(hr, result, t) ==
    IF result = "ok"
    THEN [hr EXCEPT !.pc = "done", !.outcome = "ok", !.calls = @ + 1,
                    !.delay = 0, !.wake = 0]
    ELSE IF result = "blocked"
    THEN [hr EXCEPT !.pc = "done", !.outcome = "refusal", !.calls = @ + 1,
                    !.delay = 0, !.wake = 0]
    ELSE [hr EXCEPT !.pc = "sleep", !.wake = t + hr.delay,
                    !.sleeps = Append(@, hr.delay), !.delay = @ * 2,
                    !.attempt = @ + 1, !.calls = @ + 1]

\* One pass of the loop of get_gemini_response for the handler record hr, whose
\* conversation.send_message(question) ends with `result`.
send_message(hr, result, t) ==
    IF result = "ok"
    THEN [hr EXCEPT !.pc = "done", !.outcome = "ok", !.calls = @ + 1,
                    !.delay = 0, !.wake = 0]
    ELSE IF result = "blocked"
    THEN [hr EXCEPT !.pc = "done", !.outcome = "refusal", !.calls = @ + 1,
                    !.delay = 0, !.wake = 0]
    ELSE IF hr.attempt < max_retries - 1
    THEN [hr EXCEPT !.pc = "sleep", !.wake = t + hr.delay,
                    !.sleeps = Append(@, hr.delay), !.delay = @ * 2,
                    !.attempt = @ + 1, !.calls = @ + 1]
    ELSE [hr EXCEPT !.pc = "done", !.outcome = "difficulties", !.calls = @ + 1,
                    !.delay = 0, !.wake = 0, !.e = result]

\* Mutant: a successful exchange replaces the exchanges before it.
Exchange_restarting(heap, c, q, result) ==
    IF result = "ok"
    THEN [heap EXCEPT ![c].history =
            bot_template \o << <<"user", q>>, <<"model", q>> >>]
    ELSE heap

\* The ChatSession after send_message: a successful exchange is appended to
\* the history of the object the handler holds.
Exchange(heap, c, q, result) ==
    IF result = "ok"
    THEN [heap EXCEPT ![c].history = @ \o << <<"user", q>>, <<"model", q>> >>]
    ELSE heap

Results == {"ok", "blocked", "error"}

\* get_gemini_response: the first attempt of ask, or the attempt that follows a
\* backoff sleep.
Attempt(h, result) ==
    /\ \/ handlers[h].pc = "processing"
       \/ handlers[h].pc = "sleep" /\ now >= handlers[h].wake
    /\ handlers' = [handlers EXCEPT ![h] = Slot(send_message(@, result, now))]
    /\ chats' = Collect(Exchange(chats, handlers[h].conv, handlers[h].q, result),
                        conversations, handlers')
    /\ ext_log' = Append(RecentLog(now), [t |-> now, user |-> handlers[h].user])
    /\ last' = [op |-> "attempt", h |-> h, result |-> result,
                hr |-> send_message(handlers[h], result, now)]
    /\ UNCHANGED <<now, user_limiter, global_limiter, conversations, next_reap,
                   nreq, log>>

\* The mention branch, inside typing(): once the "processing" embed is sent,
\* get_conversation and the first attempt follow without an await between.
MentionAttempt(h, ok, result) ==
    /\ handlers[h].pc = "typing"
    /\ LET r == get_conversation(conversations, chats, handlers[h].user, now, ok)
           hr == IF r.ret = NoChat
                 THEN [handlers[h] EXCEPT !.pc = "done", !.outcome = "error",
                                          !.kind = "mention"]
                 ELSE send_message([handlers[h] EXCEPT !.conv = r.ret,
                                                       !.delay = retry_delay,
                                                       !.kind = "mention"],
                                   result, now)
       IN  /\ conversations' = r.conversations
           /\ handlers' = [handlers EXCEPT ![h] = Slot(hr)]
           /\ last' = [op |-> "mention_attempt", h |-> h, hr |-> hr,
                        result |-> IF r.ret = NoChat THEN "none" ELSE result]
           /\ IF r.ret = NoChat
              THEN /\ chats' = Collect(r.chats, conversations', handlers')
                   /\ ext_log' = ext_log
              ELSE /\ chats' = Collect(Exchange(r.chats, r.ret, handlers[h].q,
                                                result),
                                       conversations', handlers')
                   /\ ext_log' = Append(RecentLog(now),
                                        [t |-> now, user |-> handlers[h].user])
    /\ UNCHANGED <<now, user_limiter, global_limiter, next_reap, nreq,
                   log>>

(***************************************************************************)
(* forget, status, expiry and the daily sweep.                             *)
(***************************************************************************)
\* Mutant: every conversation is taken for the user's own.
keys_to_remove_all(convs, user_id, target, administrator) ==
    IF target = "user" \/ (target = "all" /\ administrator)
    THEN [denied |-> FALSE, keys |-> DOMAIN convs]
    ELSE [denied |-> target = "all", keys |-> {}]

\* Mutant: "all" is not reserved to administrators.
keys_to_remove_ungated(convs, user_id, target, administrator) ==
    IF target = "user"
    THEN [denied |-> FALSE, keys |-> {conversation_key(user_id)}]
    ELSE IF target = "all"
    THEN [denied |-> FALSE, keys |-> DOMAIN convs]
    ELSE [denied |-> FALSE, keys |-> {}]

\* Mutant: an administrator's "all" clears the administrator's own
\* conversation only.
keys_to_remove_own_only(convs, user_id, target, administrator) ==
    IF target = "user" \/ (target = "all" /\ administrator)
    THEN [denied |-> FALSE, keys |-> {conversation_key(user_id)}]
    ELSE [denied |-> target = "all", keys |-> {}]

\* forget: the keys it goes on to remove (denied: "Permission Denied" is
\* sent and forget returns).
keys_to_remove(convs, user_id, target, administrator) ==
    IF target = "user"
    THEN [denied |-> FALSE, keys |-> {conversation_key(user_id)}]
    ELSE IF target = "all" /\ administrator
    THEN [denied |-> FALSE, keys |-> DOMAIN convs]
    ELSE IF target = "all"
    THEN [denied |-> TRUE, keys |-> {}]
    ELSE [denied |-> FALSE, keys |-> {}]

Targets == {"user", "all", "channel"}

\* >forget [target]
Forget(user_id, target, administrator) ==
    LET sel == keys_to_remove(conversations, user_id, target, administrator)
        keys == sel.keys
    IN  /\ IF sel.denied
           THEN /\ UNCHANGED <<conversations, chats>>
                /\ last' = [op |-> "forget", user |-> user_id, target |-> target,
                            administrator |-> administrator,
                            ret |-> "denied", cleared |-> 0, removed |-> 0]
           ELSE /\ conversations' = DelAll(conversations, keys)
                /\ chats' = Collect(Detach(conversations, chats, keys),
                                    conversations', handlers)
                /\ last' = [op |-> "forget", user |-> user_id, target |-> target,
                            administrator |-> administrator,
                            ret |-> IF keys # {} THEN "cleared" ELSE "none found",
                            cleared |-> Cardinality(keys),
                            removed |-> Cardinality(keys \cap DOMAIN conversations)]
        /\ UNCHANGED <<now, user_limiter, global_limiter, handlers, next_reap,
                       nreq, ext_log, log>>

\* The expiry shown for the user's conversation, if there is one:
\* created_at + 7 days - now.
time_left(convs, user_id, t) ==
    IF conversation_key(user_id) \in DOMAIN convs
    THEN [active |-> TRUE,
          left |-> convs[conversation_key(user_id)].created_at + SessionTTL - t]
    ELSE [active |-> FALSE, left |-> 0]

\* >status: one unmetered generate_content("Hello"), then the counts.
Status(user_id, ok) ==
    /\ nreq < MaxRequests
    /\ nreq' = nreq + 1
    /\ ext_log' = Append(RecentLog(now), [t |-> now, user |-> user_id])
    /\ last' = [op |-> "status", user |-> user_id,
                ok |-> ok, ret |-> time_left(conversations, user_id, now),
                total |-> Cardinality(DOMAIN conversations)]
    /\ UNCHANGED <<now, user_limiter, global_limiter, conversations, chats,
                   handlers, next_reap, log>>

\* >expiry
Expiry(user_id) ==
    /\ last' = [op |-> "expiry", user |-> user_id,
                ret |-> time_left(conversations, user_id, now)]
    /\ UNCHANGED <<now, user_limiter, global_limiter, conversations, chats,
                   handlers, next_reap, nreq, ext_log, log>>

\* Mutant: a conversation aged exactly 7 days is deleted too.
expired_inclusive(convs, t) ==
    {k \in DOMAIN convs : t - convs[k].created_at >= SessionTTL}

\* Mutant: the sweep lets a conversation over age live for one run more.
expired_late(convs, t) ==
    {k \in DOMAIN convs : t - convs[k].created_at > SessionTTL + ReapInterval}

\* Mutant: the sweep deletes whatever it enumerated.
expired_everything(convs, t) == DOMAIN convs

\* The keys check_conversation_age deletes at time t.
expired(convs, t) ==
    {k \in DOMAIN convs : t - convs[k].created_at > SessionTTL}

\* check_conversation_age, run by tasks.loop every ReapInterval.
Reaper ==
    /\ now >= next_reap
    /\ next_reap' = next_reap + ReapInterval
    /\ conversations' = DelAll(conversations, expired(conversations, now))
    /\ chats' = Collect(Detach(conversations, chats, expired(conversations, now)),
                        conversations', handlers)
    /\ last' = [op |-> "reaper",
                reset_count |-> Cardinality(expired(conversations, now))]
    /\ UNCHANGED <<now, user_limiter, global_limiter, handlers, nreq,
                   ext_log, log>>

\* The requests, the handlers' steps, the deletions and the sweep.
Next ==
    \/ Tick
    \/ \E h \in DOMAIN handlers, u \in Users : Start(h, u, FALSE)
    \/ \E h \in DOMAIN handlers, ok \in BOOLEAN : AskGetConversation(h, ok)
    \/ \E h \in DOMAIN handlers, r \in Results : Attempt(h, r)
    \/ \E h \in DOMAIN handlers, ok \in BOOLEAN, r \in Results :
          MentionAttempt(h, ok, r)
    \/ \E u \in Users : Forget(u, "user", FALSE)
    \/ Forget("u1", "all", TRUE)
    \/ Reaper

Spec == Init /\ [][Next]_vars

(***************************************************************************)
(* The commands of the store with one handler at a time: forget in all its *)
(* forms, status and expiry beside the requests and the sweep.             *)
(***************************************************************************)
InitStore ==
    /\ now = 0
    /\ user_limiter = RateLimiter(UserMaxCalls, UserWindow)
    /\ global_limiter = RateLimiter(GlobalMaxCalls, GlobalWindow)
    /\ conversations = <<>>
    /\ chats = <<>>
    /\ handlers = [h \in {1} |-> Idle]
    /\ next_reap = 0
    /\ nreq = 0
    /\ last = NoOp
    /\ ext_log = <<>>
    /\ log = <<>>

NextStore ==
    \/ Tick
    \/ \E h \in DOMAIN handlers, u \in Users, e \in BOOLEAN : Start(h, u, e)
    \/ \E h \in DOMAIN handlers, ok \in BOOLEAN : AskGetConversation(h, ok)
    \/ \E h \in DOMAIN handlers, r \in Results : Attempt(h, r)
    \/ \E h \in DOMAIN handlers, ok \in BOOLEAN, r \in Results :
          MentionAttempt(h, ok, r)
    \/ \E u \in Users, t \in Targets, a \in BOOLEAN :
          (a => t = "all") /\ Forget(u, t, a)
    \/ \E u \in Users, ok \in BOOLEAN : Status(u, ok)
    \/ \E u \in Users : Expiry(u)
    \/ Reaper

SpecStore == InitStore /\ [][NextStore]_vars

(***************************************************************************)
(* The store under the mention branch, forget in all its forms and the     *)
(* sweep, one handler at a time.                                           *)
(***************************************************************************)
NextSweep ==
    \/ Tick
    \/ \E h \in DOMAIN handlers, u \in Users : Start(h, u, FALSE)
    \/ \E h \in DOMAIN handlers, ok \in BOOLEAN, r \in Results :
          MentionAttempt(h, ok, r)
    \/ \E h \in DOMAIN handlers, r \in Results : Attempt(h, r)
    \/ \E u \in Users, t \in {"user", "all"}, a \in BOOLEAN :
          (a => t = "all") /\ Forget(u, t, a)
    \/ Reaper

SpecSweep == InitStore /\ [][NextSweep]_vars

\* The same with time that advances and a sweep that runs whenever it is
\* due: tasks.loop(hours=24), started by on_ready, for the life of the process.
SpecEvict ==
    /\ InitStore
    /\ [][NextSweep]_vars
    /\ WF_vars(Tick)
    /\ WF_vars(Reaper)

(***************************************************************************)
(* get_gemini_response followed through its backoff: one handler at a time,*)
(* requests arrive up to MaxSendTime and the clock runs on while a handler *)
(* sleeps.  The service can fail in two ways besides blocking the prompt.  *)
(* The event loop resumes a coroutine whose sleep has ended, time passes,  *)
(* and a call to the service returns: the fairness conditions.             *)
(***************************************************************************)
\* Last clock value at which nothing is asleep.
MaxSendTime == 1

\* What conversation.send_message can end with: a response, a
\* BlockedPromptException, or another exception (two kinds of them).
SendResults == Results \cup {"timeout"}

\* await asyncio.sleep(retry_delay): time passes.
SendTick ==
    /\ \/ now < MaxSendTime
       \/ \E h \in DOMAIN handlers :
             handlers[h].pc = "sleep" /\ now < handlers[h].wake
    /\ now' = now + 1
    /\ last' = [op |-> "tick"]
    /\ UNCHANGED <<user_limiter, global_limiter, conversations, chats, handlers,
                   next_reap, nreq, ext_log, log>>

NextSend ==
    \/ SendTick
    \/ \E h \in DOMAIN handlers, u \in Users : Start(h, u, FALSE)
    \/ \E h \in DOMAIN handlers, ok \in BOOLEAN : AskGetConversation(h, ok)
    \/ \E h \in DOMAIN handlers, r \in SendResults : Attempt(h, r)
    \/ \E h \in DOMAIN handlers, ok \in BOOLEAN, r \in SendResults :
          MentionAttempt(h, ok, r)

SpecSend ==
    /\ InitStore
    /\ [][NextSend]_vars
    /\ WF_vars(SendTick)
    /\ WF_vars(\E r \in SendResults : Attempt(1, r))

(***************************************************************************)
(* The call to the service taken apart: conversation.send_message is an    *)
(* ordinary call made inside the coroutine, not awaited, so the thread of   *)
(* the event loop stays in it from the moment it is made until it returns   *)
(* or raises, and no other handler, command or task runs meanwhile.         *)
(***************************************************************************)
MaxCallTime == 2

\* A handler is inside conversation.send_message: the event loop is held.
Blocked == \E h \in DOMAIN handlers : handlers[h].pc = "calling"

\* Time passes, during a call to the service as well.
CallTick ==
    /\ now < MaxCallTime
    /\ now' = now + 1
    /\ last' = [op |-> "tick"]
    /\ UNCHANGED <<user_limiter, global_limiter, conversations, chats, handlers,
                   next_reap, nreq, ext_log, log>>

\* The event loop runs the handler of a new request.
CallStart(h, user_id) == ~Blocked /\ Start(h, user_id, FALSE)

\* The event loop resumes a handler inside typing().
CallGetConversation(h, ok) == ~Blocked /\ AskGetConversation(h, ok)

\* The event loop runs >forget.
CallForget(user_id) == ~Blocked /\ Forget(user_id, "user", FALSE)

\* The event loop resumes a handler that enters conversation.send_message.
CallBegin(h) ==
    /\ ~Blocked
    /\ \/ handlers[h].pc = "processing"
       \/ handlers[h].pc = "sleep" /\ now >= handlers[h].wake
    /\ handlers' = [handlers EXCEPT ![h].pc = "calling"]
    /\ last' = [op |-> "call", h |-> h]
    /\ UNCHANGED <<now, user_limiter, global_limiter, conversations, chats,
                   next_reap, nreq, ext_log, log>>

\* conversation.send_message returns or raises, and get_gemini_response goes
\* on to its return or to its sleep.
CallReturn(h, result) ==
    /\ handlers[h].pc = "calling"
    /\ handlers' = [handlers EXCEPT ![h] = Slot(send_message(@, result, now))]
    /\ chats' = Collect(Exchange(chats, handlers[h].conv, handlers[h].q, result),
                        conversations, handlers')
    /\ ext_log' = Append(RecentLog(now), [t |-> now, user |-> handlers[h].user])
    /\ last' = [op |-> "attempt", h |-> h, result |-> result,
                hr |-> send_message(handlers[h], result, now)]
    /\ UNCHANGED <<now, user_limiter, global_limiter, conversations, next_reap,
                   nreq, log>>

NextCall ==
    \/ CallTick
    \/ \E h \in DOMAIN handlers, u \in Users : CallStart(h, u)
    \/ \E h \in DOMAIN handlers, ok \in BOOLEAN : CallGetConversation(h, ok)
    \/ \E h \in DOMAIN handlers : CallBegin(h)
    \/ \E h \in DOMAIN handlers, r \in Results : CallReturn(h, r)
    \/ \E u \in Users : CallForget(u)

SpecCall == Init /\ [][NextCall]_vars

(***************************************************************************)
(* on_message, message by message.  A message can be a command (it begins  *)
(* with the prefix: process_commands runs ask), a mention of the bot (the  *)
(* mention branch of on_message runs), or both, and then on_message runs   *)
(* ask to its end inside process_commands and the mention branch after it. *)
(* `log` holds the messages with what each has caused so far.              *)
(***************************************************************************)
MaxMessages == 2

\* on_message has returned for the last message.
Returned ==
    /\ handlers[1].pc = "idle"
    /\ log # <<>> => ~(/\ log[Len(log)].command /\ log[Len(log)].mention
                       /\ log[Len(log)].branch = "ask")

\* The two add_call, and what ask or the mention branch does with their
\* answers: the limiters afterwards and the handler.
admission(user_id, q, empty, t) ==
    LET ru == add_call(user_limiter, user_id, t)
        rg == add_call(global_limiter, GlobalKey, t)
        rej == rejection(ru.ret, rg.ret)
        retry == IF rej = "user_limited"
                 THEN get_retry_after(ru.self, user_id, t)
                 ELSE get_retry_after(rg.self, GlobalKey, t)
    IN  [user_limiter |-> IF rej = "user_limited" THEN retry.self ELSE ru.self,
         global_limiter |-> IF rej = "global_limited" THEN retry.self ELSE rg.self,
         hr |-> [Idle EXCEPT
                   !.user = user_id, !.q = q,
                   !.is_user_limited = ru.ret, !.is_global_limited = rg.ret,
                   !.pc = IF rej # "none" \/ empty THEN "done" ELSE "typing",
                   !.outcome = IF rej # "none" THEN rej
                               ELSE IF empty THEN "greeting" ELSE "none",
                   !.retry_after = IF rej # "none" THEN retry.ret ELSE 0]]

\* A message arrives: on_message runs ask when it is a command, and the
\* mention branch when it is a mention only (empty: nothing but the mention).
OnMessage(user_id, command, mention, empty) ==
    /\ Returned
    /\ Len(log) < MaxMessages
    /\ command \/ mention
    /\ empty => (mention /\ ~command)
    /\ LET a == admission(user_id, nreq + 1, empty, now)
       IN  /\ user_limiter' = a.user_limiter
           /\ global_limiter' = a.global_limiter
           /\ handlers' = [handlers EXCEPT ![1] = Slot(a.hr)]
           /\ last' = [op |-> "start", h |-> 1, hr |-> a.hr]
    /\ log' = Append(log, [user |-> user_id, command |-> command,
                           mention |-> mention, empty |-> empty,
                           branch |-> IF command THEN "ask" ELSE "mention",
                           user_calls |-> 1, global_calls |-> 1, sends |-> 0])
    /\ nreq' = nreq + 1
    /\ UNCHANGED <<now, conversations, chats, next_reap, ext_log>>

\* process_commands has returned for a command that mentions the bot:
\* on_message goes on into its mention branch (the text left is not empty:
\* it holds the command).
MentionBranch ==
    /\ handlers[1].pc = "idle"
    /\ log # <<>>
    /\ log[Len(log)].command /\ log[Len(log)].mention
    /\ log[Len(log)].branch = "ask"
    /\ LET a == admission(log[Len(log)].user, nreq + 1, FALSE, now)
       IN  /\ user_limiter' = a.user_limiter
           /\ global_limiter' = a.global_limiter
           /\ handlers' = [handlers EXCEPT ![1] = Slot(a.hr)]
           /\ last' = [op |-> "start", h |-> 1, hr |-> a.hr]
    /\ log' = [log EXCEPT ![Len(log)].branch = "mention",
                          ![Len(log)].user_calls = @ + 1,
                          ![Len(log)].global_calls = @ + 1]
    /\ nreq' = nreq + 1
    /\ UNCHANGED <<now, conversations, chats, next_reap, ext_log>>

\* ask calls get_gemini_response: its first call to the service.
AskSend(result) ==
    /\ handlers[1].pc = "processing"
    /\ handlers' = [handlers EXCEPT ![1] = Slot(send_message(@, result, now))]
    /\ chats' = Collect(Exchange(chats, handlers[1].conv, handlers[1].q, result),
                        conversations, handlers')
    /\ ext_log' = Append(RecentLog(now), [t |-> now, user |-> handlers[1].user])
    /\ last' = [op |-> "attempt", h |-> 1, result |-> result,
                hr |-> send_message(handlers[1], result, now)]
    /\ log' = [log EXCEPT ![Len(log)].sends = @ + 1]
    /\ UNCHANGED <<now, user_limiter, global_limiter, conversations, next_reap,
                   nreq>>

\* The mention branch: get_conversation, then get_gemini_response and its
\* first call to the service.
MentionSend(ok, result) ==
    /\ handlers[1].pc = "typing"
    /\ log[Len(log)].branch = "mention"
    /\ LET r == get_conversation(conversations, chats, handlers[1].user, now, ok)
           hr == IF r.ret = NoChat
                 THEN [handlers[1] EXCEPT !.pc = "done", !.outcome = "error",
                                          !.kind = "mention"]
                 ELSE send_message([handlers[1] EXCEPT !.conv = r.ret,
                                                       !.delay = retry_delay,
                                                       !.kind = "mention"],
                                   result, now)
       IN  /\ conversations' = r.conversations
           /\ handlers' = [handlers EXCEPT ![1] = Slot(hr)]
           /\ last' = [op |-> "mention_attempt", h |-> 1, hr |-> hr,
                        result |-> IF r.ret = NoChat THEN "none" ELSE result]
           /\ IF r.ret = NoChat
              THEN /\ chats' = Collect(r.chats, conversations', handlers')
                   /\ ext_log' = ext_log
                   /\ log' = log
              ELSE /\ chats' = Collect(Exchange(r.chats, r.ret, handlers[1].q,
                                                result),
                                       conversations', handlers')
                   /\ ext_log' = Append(RecentLog(now),
                                        [t |-> now, user |-> handlers[1].user])
                   /\ log' = [log EXCEPT ![Len(log)].sends = @ + 1]
    /\ UNCHANGED <<now, user_limiter, global_limiter, next_reap, nreq>>

\* ask, inside typing(): get_conversation.
AskBranch(ok) ==
    /\ handlers[1].pc = "typing"
    /\ log[Len(log)].branch = "ask"
    /\ AskGetConversation(1, ok)

\* A call to the service after a backoff sleep, within the same
\* get_gemini_response.
Retry(result) == handlers[1].pc = "sleep" /\ Attempt(1, result)

NextMessage ==
    \/ SendTick
    \/ \E u \in Users, command, mention, empty \in BOOLEAN :
          OnMessage(u, command, mention, empty)
    \/ MentionBranch
    \/ \E ok \in BOOLEAN : AskBranch(ok)
    \/ \E r \in Results : AskSend(r)
    \/ \E ok \in BOOLEAN, r \in Results : MentionSend(ok, r)
    \/ \E r \in Results : Retry(r)

SpecMessage == InitStore /\ [][NextMessage]_vars

(***************************************************************************)
(* Properties of the limiter on its own (SpecTest).                        *)
(***************************************************************************)
\* The list recorded for the test key.
TestCalls == Get(user_limiter.calls, TestKey)

\* The first time from t on at which add_call would admit a call for the test
\* key, were the list left as it is.
EarliestAdmit(self, t) ==
    CHOOSE m \in t..(t + self.time_frame) :
        /\ Len(Prune(Get(self.calls, TestKey), m, self.time_frame)) < self.max_calls
        /\ \A e \in t..(m - 1) :
              Len(Prune(Get(self.calls, TestKey), e, self.time_frame)) >= self.max_calls

\* The add_call invocations of the history that were admitted at a time in
\* (t - time_frame, t].
AdmittedWithin(t) ==
    {i \in 1..Len(log) :
        /\ ~log[i].limited
        /\ t - user_limiter.time_frame < log[i].t
        /\ log[i].t <= t}

\* C1: for every time t, at most max_calls of the calls that add_call admitted
\* for the key carry a timestamp in (t - window_duration, t], whatever the
\* (non-decreasing) times of the add_call and get_retry_after invocations.
C1_WindowBound ==
    \A t \in 0..MaxTestTime :
        Cardinality(AdmittedWithin(t)) <= user_limiter.max_calls

\* More calls than max_calls were admitted over the run, a window is full,
\* a call was rejected and get_retry_after was asked in between.
C1_Witness ==
    /\ Cardinality({i \in 1..Len(log) : ~log[i].limited}) > user_limiter.max_calls
    /\ \E i \in 1..Len(log) : log[i].limited /\ log[i].retry # NotAsked
    /\ \E t \in 0..MaxTestTime :
          Cardinality(AdmittedWithin(t)) = user_limiter.max_calls

\* C3: a rejected add_call leaves exactly the pruned earlier timestamps of the
\* key, records nothing for the rejected call, and so does not move the time
\* at which the key is next admitted.
C3_RejectedRecordsNothing ==
    [][(last'.op = "add_call" /\ last'.ret)
         => /\ Get(user_limiter'.calls, TestKey)
                 = Prune(TestCalls, now, user_limiter.time_frame)
            /\ EarliestAdmit(user_limiter', now') = EarliestAdmit(user_limiter, now)]_vars

\* Two rejected calls in a row, made at different times, on a full key.
C3_Witness ==
    /\ last.op = "add_call" /\ last.ret
    /\ Len(log) >= 2
    /\ log[Len(log) - 1].limited
    /\ log[Len(log) - 1].t < log[Len(log)].t
    /\ Len(TestCalls) = TestMaxCalls

\* The calls of the end-to-end example and what add_call is to answer.
Schedule == <<0, 1, 2, 3, 11>>
Expected == <<FALSE, FALSE, FALSE, TRUE, FALSE>>

FollowsSchedule(n) ==
    /\ n <= Len(log) /\ n <= Len(Schedule)
    /\ \A i \in 1..n : log[i].t = Schedule[i]

\* C5: with max_calls=3 and window=10 on a fresh key, the calls at t=0,1,2 are
\* admitted, the call at t=3 is rejected and retry_after at t=3 is 7, and the
\* call at t=11 is admitted.
C5_EndToEndTrace ==
    \A n \in 1..Len(Schedule) :
        FollowsSchedule(n)
          => /\ log[n].limited = Expected[n]
             /\ (n = 4 /\ log[n].retry # NotAsked) => log[n].retry = 7

C5_Witness ==
    /\ FollowsSchedule(5)
    /\ log[4].limited /\ log[4].retry = 7
    /\ ~log[5].limited

\* What C6 says get_retry_after returns: the remaining time of the oldest call
\* still within the window, 0 without one.
ClaimedRetryAfter(self, key, t) ==
    LET pruned == Prune(Get(self.calls, key), t, self.time_frame)
    IN  IF pruned = <<>> THEN 0
        ELSE Max(0, self.time_frame - (t - Min(pruned)))

\* C6 as stated: get_retry_after returns the remaining time of the oldest call
\* that is still within the window (computed after pruning).
C6_Original ==
    last.op = "get_retry_after"
      => last.ret = ClaimedRetryAfter(user_limiter, TestKey, now)

\* C6 amended: get_retry_after returns max(0, window - (now - o)) for the
\* oldest call o on record, expired or not (nothing is pruned), and 0 for a
\* key without recorded calls; while no recorded call has expired this is
\* the value C6 states.
C6_RetryAfterUnpruned ==
    last.op = "get_retry_after"
      => /\ TestCalls = <<>> => last.ret = 0
         /\ TestCalls # <<>> =>
              /\ last.ret = Max(0, user_limiter.time_frame - (now - TestCalls[1]))
              /\ now - TestCalls[1] < user_limiter.time_frame
                   => last.ret = ClaimedRetryAfter(user_limiter, TestKey, now)

\* get_retry_after answers 0 for a key whose oldest call has expired while a
\* later one is still within the window.
C6_Witness ==
    /\ last.op = "get_retry_after" /\ last.ret = 0
    /\ Len(TestCalls) >= 2
    /\ now - TestCalls[1] >= user_limiter.time_frame
    /\ now - TestCalls[Len(TestCalls)] < user_limiter.time_frame

\* C7: with no add_call on the key in between, retry_after strictly decreases
\* as time advances while it is positive, and it is 0 at the instant the
\* oldest recorded call is exactly window_duration old.
C7_MonotonicCooldown ==
    [][(TestCalls # <<>> /\ user_limiter'.calls = user_limiter.calls /\ now' > now)
         => /\ get_retry_after(user_limiter, TestKey, now).ret > 0
                 => get_retry_after(user_limiter', TestKey, now').ret
                      < get_retry_after(user_limiter, TestKey, now).ret
            /\ now' - Min(TestCalls) = user_limiter.time_frame
                 => get_retry_after(user_limiter', TestKey, now').ret = 0]_vars

\* get_retry_after was asked at the instant the oldest call turned 10 s old.
C7_Witness ==
    /\ last.op = "get_retry_after" /\ last.ret = 0
    /\ TestCalls # <<>>
    /\ now - Min(TestCalls) = user_limiter.time_frame

(***************************************************************************)
(* Properties of the bot (Spec, SpecStore).                                *)
(***************************************************************************)
\* The calls of the history made at a time within `window` of t.
CallsWithin(t, window) ==
    {i \in 1..Len(ext_log) : t - ext_log[i].t < window}

\* C2: at most global_max_calls calls reach the Gemini service within any
\* global window, and at most user_max_calls on behalf of one user within
\* any user window, every attempt of get_gemini_response counted.
C2_RetriesWithinBudget ==
    /\ Cardinality(CallsWithin(now, global_limiter.time_frame))
         <= global_limiter.max_calls
    /\ \A u \in Users :
          Cardinality({i \in CallsWithin(now, user_limiter.time_frame) :
                         ext_log[i].user = u})
            <= user_limiter.max_calls

\* A handler record of a request that a limiter turned down.
Rejected(hr) == hr.is_user_limited \/ hr.is_global_limited

\* C4: only a request that both limiters admitted goes on to get_conversation
\* and to the service; a request turned down by either returns at once, holds
\* no conversation, has made no call to the service, and leaves the store, the
\* ChatSession objects and the service untouched.
C4_OnlyAdmittedProceed ==
    [][/\ \A h \in DOMAIN handlers :
            handlers'[h].pc # "idle" => ~Rejected(handlers'[h])
       /\ last'.op \in {"get_conversation", "attempt", "mention_attempt"}
            => ~Rejected(last'.hr)
       /\ (last'.op = "start" /\ Rejected(last'.hr))
            => /\ last'.hr.pc = "done"
               /\ last'.hr.conv = NoChat /\ last'.hr.calls = 0
               /\ handlers'[last'.h] = Idle
               /\ conversations' = conversations
               /\ chats' = chats
               /\ ext_log' = ext_log]_vars

\* The global limiter alone turns a request down while the store holds a
\* conversation and the user has none.
C4_Witness ==
    /\ last.op = "start"
    /\ last.hr.is_global_limited /\ ~last.hr.is_user_limited
    /\ last.hr.outcome = "global_limited"
    /\ conversations # <<>>
    /\ conversation_key(last.hr.user) \notin DOMAIN conversations

\* C8: while a user's conversation stays in the store, no step changes it:
\* get_conversation returns the ChatSession it holds, and neither ask, the
\* mention branch, status nor expiry touch its created_at.
C8_CreatedAtFixed ==
    [][/\ \A k \in (DOMAIN conversations) \cap (DOMAIN conversations') :
            conversations'[k] = conversations[k]
       /\ (/\ last'.op \in {"get_conversation", "mention_attempt"}
           /\ conversation_key(last'.hr.user) \in DOMAIN conversations)
            => last'.hr.conv = conversations[conversation_key(last'.hr.user)].chat
       /\ last'.op \in {"status", "expiry"}
            => conversations' = conversations /\ chats' = chats]_vars

\* get_conversation hands out, at a later time, the conversation of an
\* earlier exchange.
C8_Witness ==
    /\ last.op = "get_conversation"
    /\ conversation_key(last.hr.user) \in DOMAIN conversations
    /\ LET c == conversations[conversation_key(last.hr.user)]
       IN  /\ c.chat = last.hr.conv
           /\ c.created_at < now
           /\ Len(chats[c.chat].history) > Len(bot_template)

C10_ScopedDeletion ==
    [][(last'.op = "forget" /\ last'.target = "user")
         => /\ conversation_key(last'.user) \notin DOMAIN conversations'
            /\ DOMAIN conversations'
                 = (DOMAIN conversations) \ {conversation_key(last'.user)}
            /\ \A k \in DOMAIN conversations' :
                  /\ conversations'[k] = conversations[k]
                  /\ chats'[conversations'[k].chat] = chats[conversations[k].chat]]_vars

\* forget removed the caller's conversation while another user's, with an
\* exchange in it, stays.
C10_Witness ==
    /\ last.op = "forget" /\ last.target = "user" /\ last.removed = 1
    /\ \E k \in DOMAIN conversations :
          Len(chats[conversations[k].chat].history) > Len(bot_template)

\* C11: forget with target "all" by a caller who is not an administrator
\* ends with "Permission Denied" and changes nothing: the store, the
\* caller's own conversation included, the ChatSession objects and the
\* tables of both limiters are as before.
C11_AuthorizationGate ==
    [][(last'.op = "forget" /\ last'.target = "all" /\ ~last'.administrator)
         => /\ last'.ret = "denied"
            /\ conversations' = conversations
            /\ chats' = chats
            /\ user_limiter' = user_limiter
            /\ global_limiter' = global_limiter]_vars

\* A caller without the permission asked for "all" while holding a
\* conversation, and another user held one too.
C11_Witness ==
    /\ last.op = "forget" /\ last.target = "all" /\ ~last.administrator
    /\ last.ret = "denied"
    /\ conversation_key(last.user) \in DOMAIN conversations
    /\ Cardinality(DOMAIN conversations) = 2

\* C12: forget with target "all" by an administrator leaves the store empty
\* and reports as cleared the number of conversations that were in the
\* store, all of which it removed.
C12_DeleteAll ==
    [][(last'.op = "forget" /\ last'.target = "all" /\ last'.administrator)
         => /\ conversations' = <<>>
            /\ last'.cleared = Cardinality(DOMAIN conversations)
            /\ last'.removed = last'.cleared
            /\ last'.ret = IF DOMAIN conversations = {}
                           THEN "none found" ELSE "cleared"]_vars

\* An administrator cleared a store of two conversations.
C12_Witness ==
    /\ last.op = "forget" /\ last.target = "all" /\ last.administrator
    /\ last.cleared = 2 /\ last.ret = "cleared"
    /\ conversations = <<>>

\* C13: the count forget reports for target "user" is the number of
\* conversations that invocation removed: 1 when the caller had one, 0
\* ("none found") when the caller had none.
C13_ClearedCountIsRemoved ==
    [][(last'.op = "forget" /\ last'.target = "user")
         => /\ last'.cleared = last'.removed
            /\ last'.cleared =
                 (IF conversation_key(last'.user) \in DOMAIN conversations
                  THEN 1 ELSE 0)
            /\ (last'.cleared = 0 <=> last'.ret = "none found")]_vars

\* The ages, at time t, of the conversations of a store.
Age(convs, k, t) == t - convs[k].created_at

\* C14: one run of check_conversation_age removes the conversations older
\* than 7 days and no other: one aged 7 days or less stays as it was, and
\* reset_count is the number removed.
C14_SweepSelectivity ==
    [][last'.op = "reaper"
         => /\ DOMAIN conversations' =
                 {k \in DOMAIN conversations :
                     Age(conversations, k, now) <= SessionTTL}
            /\ \A k \in DOMAIN conversations' :
                  /\ conversations'[k] = conversations[k]
                  /\ chats'[conversations'[k].chat] = chats[conversations[k].chat]
            /\ last'.reset_count =
                 Cardinality((DOMAIN conversations) \ (DOMAIN conversations'))]_vars

\* A run removed one conversation and kept one aged exactly 7 days.
C14_Witness ==
    /\ last.op = "reaper" /\ last.reset_count = 1
    /\ \E k \in DOMAIN conversations :
          Age(conversations, k, now) = SessionTTL

\* C15: the store never holds a conversation older than 7 days, and
\* get_conversation never hands out one.
C15_NeverOverAge ==
    [][/\ \A k \in DOMAIN conversations' :
            Age(conversations', k, now') <= SessionTTL
       /\ (/\ last'.op \in {"get_conversation", "mention_attempt"}
           /\ conversation_key(last'.hr.user) \in DOMAIN conversations)
            => Age(conversations, conversation_key(last'.hr.user), now)
                 <= SessionTTL]_vars

(***************************************************************************)
(* Properties of get_gemini_response (SpecSend).                           *)
(***************************************************************************)
\* The step is an attempt of get_gemini_response.
IsAttempt(l) == l.op \in {"attempt", "mention_attempt"} /\ l.result # "none"

\* C16: when send_message fails twice with an exception other than
\* BlockedPromptException and then answers, get_gemini_response has called it
\* exactly 3 times, has slept 2 s after the first failure and 4 s after the
\* second, no attempt being made before its sleep has ended, and returns the
\* answer.
C16_BackoffSchedule ==
    [][IsAttempt(last')
         => /\ (last'.result = "ok" /\ last'.hr.attempt = 2)
                 => /\ last'.hr.calls = 3
                    /\ last'.hr.sleeps = <<2, 4>>
                    /\ last'.hr.pc = "done" /\ last'.hr.outcome = "ok"
            /\ last'.hr.pc = "sleep"
                 => last'.hr.wake = now + last'.hr.sleeps[Len(last'.hr.sleeps)]
            /\ handlers[last'.h].pc = "sleep"
                 => now >= handlers[last'.h].wake]_vars

\* The third call answered, 6 s or more after the first.
C16_Witness ==
    /\ IsAttempt(last) /\ last.result = "ok"
    /\ last.hr.attempt = 2 /\ last.hr.sleeps = <<2, 4>> /\ last.hr.calls = 3
    /\ now >= 6

\* C17: on BlockedPromptException, at whichever attempt, get_gemini_response
\* returns the refusal text at once: no sleep and no call follows; raised by
\* the first call, there was no retry and no sleep at all.
C17_BlockedShortCircuit ==
    [][(IsAttempt(last') /\ last'.result = "blocked")
         => /\ last'.hr.pc = "done" /\ last'.hr.outcome = "refusal"
            /\ handlers'[last'.h] = Idle
            /\ last'.hr.sleeps = handlers[last'.h].sleeps
            /\ last'.hr.calls = handlers[last'.h].calls + 1
            /\ handlers[last'.h].attempt = 0
                 => last'.hr.calls = 1 /\ last'.hr.sleeps = <<>>]_vars

\* The prompt was blocked at the second call, after one backoff sleep.
C17_Witness ==
    /\ IsAttempt(last) /\ last.result = "blocked"
    /\ last.hr.outcome = "refusal"
    /\ last.hr.calls = 2 /\ last.hr.sleeps = <<2>>

\* The texts get_gemini_response returns.
Texts == {"ok", "refusal", "difficulties"}

\* C18: a third failure ends get_gemini_response after exactly 3 calls with
\* the "technical difficulties" text that carries the last exception;
\* whatever the calls end with, get_gemini_response either sleeps before the
\* next call or returns a text, and raises nothing.
C18_ExhaustedRetriesBecomeText ==
    [][IsAttempt(last')
         => /\ last'.hr.pc \in {"sleep", "done"}
            /\ last'.hr.pc = "done" => last'.hr.outcome \in Texts
            /\ last'.hr.calls <= max_retries
            /\ (last'.result \notin {"ok", "blocked"} /\ last'.hr.pc = "done")
                 => /\ last'.hr.outcome = "difficulties"
                    /\ last'.hr.calls = 3
                    /\ last'.hr.e = last'.result]_vars

\* Three calls failed, the last one with a timeout.
C18_Witness ==
    /\ IsAttempt(last) /\ last.result = "timeout"
    /\ last.hr.outcome = "difficulties" /\ last.hr.e = "timeout"
    /\ last.hr.calls = 3

\* C19 as stated: a get_gemini_response whose calls all fail has slept 2 s,
\* 4 s and 8 s.
C19_Original ==
    (IsAttempt(last) /\ last.hr.outcome = "difficulties")
        => last.hr.sleeps = <<2, 4, 8>>

\* C19: with max_retries = 3 and retry_delay = 2 doubled after each failed
\* call but the last, a get_gemini_response whose calls all fail has slept
\* 2 s and 4 s; it does not sleep after the third failure.
C19_TwoDelays ==
    (IsAttempt(last) /\ last.hr.outcome = "difficulties")
        => /\ last.hr.sleeps = <<retry_delay, 2 * retry_delay>>
           /\ last.hr.sleeps = <<2, 4>>
           /\ Len(last.hr.sleeps) = max_retries - 1

\* All three calls failed, 6 s or more after the first.
C19_Witness ==
    /\ IsAttempt(last) /\ last.hr.outcome = "difficulties"
    /\ last.hr.sleeps = <<2, 4>>
    /\ now >= 6

\* C20: a get_gemini_response that has started returns, and by then it has
\* called the service at most max_retries = 3 times.
C20_SendReturns ==
    /\ [](IsAttempt(last) => last.hr.calls <= max_retries)
    /\ (handlers[1].pc \in {"processing", "sleep"}) ~> (handlers[1].pc = "idle")

\* A handler is asleep before its third call.
C20_Witness ==
    /\ handlers[1].pc = "sleep"
    /\ handlers[1].attempt = 2
    /\ now < handlers[1].wake

(***************************************************************************)
(* Further properties of the limiter on its own (SpecTest).                *)
(***************************************************************************)
\* C25: right after every add_call on a key, the timestamps recorded for the
\* key are in ascending order, each is less than time_frame old at the time
\* of that call, and there are at most max_calls of them.
C25_LimiterStateInvariant ==
    last.op = "add_call"
      => /\ \A i, j \in 1..Len(TestCalls) : i < j => TestCalls[i] <= TestCalls[j]
         /\ \A i \in 1..Len(TestCalls) :
               now - TestCalls[i] < user_limiter.time_frame
         /\ Len(TestCalls) <= user_limiter.max_calls

\* An admitted add_call filled the key again after an earlier call of it had
\* expired.
C25_Witness ==
    /\ last.op = "add_call" /\ ~last.ret
    /\ Len(TestCalls) = user_limiter.max_calls
    /\ Cardinality({i \in 1..Len(log) : ~log[i].limited}) > user_limiter.max_calls
    /\ TestCalls[1] < TestCalls[Len(TestCalls)]

\* The add_call invocations after the i-th of the history, up to the j-th,
\* that were admitted.
AdmittedBetween(i, j) == {k \in (i + 1)..(j - 1) : ~log[k].limited}

\* C26: when add_call is rejected at time t and get_retry_after then answers
\* r, r is positive, every add_call before t + r is rejected, and the next
\* add_call at exactly t + r, none being admitted in between, is admitted.
C26_RetryAfterExact ==
    \A i \in 1..Len(log) :
        (log[i].limited /\ log[i].retry # NotAsked)
          => /\ log[i].retry > 0
             /\ \A j \in (i + 1)..Len(log) :
                   /\ log[j].t < log[i].t + log[i].retry => log[j].limited
                   /\ (log[j].t = log[i].t + log[i].retry
                        /\ AdmittedBetween(i, j) = {})
                        => ~log[j].limited

\* A rejected add_call whose get_retry_after answer r was positive, and a later
\* add_call admitted exactly r after it.
C26_Witness ==
    \E i, k \in 1..Len(log) :
        /\ i < k
        /\ log[i].limited /\ log[i].retry > 0
        /\ log[k].t = log[i].t + log[i].retry
        /\ AdmittedBetween(i, k) = {}
        /\ ~log[k].limited

(***************************************************************************)
(* Further properties of the bot.                                          *)
(***************************************************************************)
\* The list a limiter holds for a key after an add_call at time t that was
\* admitted.
Recorded(self, key, t) ==
    Append(Prune(Get(self.calls, key), t, self.time_frame), t)

\* C24: every request asks both limiters, the user's and then the global
\* one: a request the user limiter rejects is still recorded by the global
\* limiter when that has capacity, a request only the global limiter rejects
\* has been recorded by the user limiter, and when both reject the request is
\* answered with the user's rejection.
C24_BothLimitersAsked ==
    [][(nreq' = nreq + 1) =>
        LET hr == last'.hr
        IN  /\ last'.op = "start"
            /\ ~hr.is_global_limited
                 => Get(global_limiter'.calls, GlobalKey)
                      = Recorded(global_limiter, GlobalKey, now)
            /\ ~hr.is_user_limited
                 => Get(user_limiter'.calls, hr.user)
                      = Recorded(user_limiter, hr.user, now)
            /\ (hr.is_user_limited /\ ~hr.is_global_limited)
                 => hr.outcome = "user_limited"
            /\ (~hr.is_user_limited /\ hr.is_global_limited)
                 => hr.outcome = "global_limited"
            /\ (hr.is_user_limited /\ hr.is_global_limited)
                 => hr.outcome = "user_limited"]_vars

\* A request rejected by the user limiter alone has just been recorded by
\* the global limiter, which now holds it as its only call.
C24_Witness ==
    /\ last.op = "start"
    /\ last.hr.is_user_limited /\ ~last.hr.is_global_limited
    /\ last.hr.outcome = "user_limited"
    /\ Get(global_limiter.calls, GlobalKey) = <<now>>
    /\ Get(user_limiter.calls, last.hr.user) # <<>>
    /\ now \notin {Get(user_limiter.calls, last.hr.user)[i] :
                     i \in 1..Len(Get(user_limiter.calls, last.hr.user))}

\* The sequence s begins with the sequence p.
BeginsWith(s, p) ==
    /\ Len(s) >= Len(p)
    /\ \A i \in 1..Len(p) : s[i] = p[i]

\* The entry of the store under key k is whole: it has its chat, which is a
\* ChatSession object, and its created_at, a time that has been.
Whole(k) ==
    /\ DOMAIN conversations[k] = {"chat", "created_at"}
    /\ conversations[k].chat \in DOMAIN chats
    /\ conversations[k].created_at \in 0..now

\* The steps that call get_conversation.
CallsGetConversation(l) == l.op \in {"get_conversation", "mention_attempt"}

\* C27: a conversation is created in one step: every entry of the store has
\* both its chat and its created_at; an entry that appears has the time of
\* its creation and a new chat whose history is the template (followed, in
\* the mention branch, by the exchange of the same step at most); and when
\* start_chat fails, get_conversation raises and
\* leaves the store as it was, without an entry for the user.
C27_AtomicCreation ==
    /\ [](\A k \in DOMAIN conversations : Whole(k))
    /\ [][/\ \A k \in (DOMAIN conversations') \ (DOMAIN conversations) :
               /\ CallsGetConversation(last')
               /\ k = conversation_key(last'.hr.user)
               /\ conversations'[k].created_at = now
               /\ conversations'[k].chat \notin DOMAIN chats
               /\ conversations'[k].chat = last'.hr.conv
               /\ BeginsWith(chats'[conversations'[k].chat].history,
                             bot_template)
               /\ last'.op = "get_conversation"
                    => chats'[conversations'[k].chat].history = bot_template
          /\ (CallsGetConversation(last') /\ last'.hr.outcome = "error"
               /\ handlers # handlers')
               => /\ conversations' = conversations
                  /\ conversation_key(last'.hr.user) \notin DOMAIN conversations'
                  /\ last'.hr.conv = NoChat]_vars

\* start_chat has just failed for a user while another user's conversation
\* is in the store: the store holds that one only.
C27_Witness ==
    /\ CallsGetConversation(last) /\ last.hr.outcome = "error"
    /\ conversation_key(last.hr.user) \notin DOMAIN conversations
    /\ \E k \in DOMAIN conversations : Whole(k)

\* C28: the history of every conversation in the store begins with the
\* turns of bot_template, in their order, whatever requests, failed
\* attempts, retries and refusals there have been.
C28_TemplatePrefix ==
    \A k \in DOMAIN conversations :
        BeginsWith(chats[conversations[k].chat].history, bot_template)

\* A conversation in the store has got an exchange after its template, from
\* a request whose first attempt failed and was tried again.
C28_Witness ==
    /\ last.op = "attempt" /\ last.result = "ok" /\ last.hr.calls >= 2
    /\ \E k \in DOMAIN conversations :
          /\ conversations[k].chat = last.hr.conv
          /\ Len(chats[conversations[k].chat].history) > Len(bot_template)
          /\ BeginsWith(chats[conversations[k].chat].history, bot_template)

\* C29: the sweep stands whatever the deletions and creations around it: a
\* sweep that is due can always run to its end, whatever forget and the
\* handlers have done to the store and wherever the handlers are; when it has
\* run, no conversation over age is left; a conversation not over age, one
\* created at the instant of the sweep included, is still there as it was;
\* and the handlers in flight are where they were.
C29_SweepRobust ==
    /\ [](now >= next_reap => ENABLED Reaper)
    /\ [][next_reap' # next_reap
           => /\ last'.op = "reaper"
              /\ \A k \in DOMAIN conversations' :
                    ~(Age(conversations', k, now') > SessionTTL)
              /\ \A k \in DOMAIN conversations :
                    Age(conversations, k, now) <= SessionTTL
                      => /\ k \in DOMAIN conversations'
                         /\ conversations'[k] = conversations[k]
              /\ handlers' = handlers]_vars

\* A sweep removed a conversation over age while a handler slept between two
\* attempts, and kept the conversation created at the instant of the sweep.
C29_Witness ==
    /\ last.op = "reaper" /\ last.reset_count >= 1
    /\ \E h \in DOMAIN handlers :
          /\ handlers[h].pc = "sleep"
          /\ \E k \in DOMAIN conversations :
                /\ conversations[k].chat = handlers[h].conv
                /\ conversations[k].created_at = now

\* C21: an exchange is not appended for a user who has no conversation in
\* the store: when the user's conversation has been removed, by forget or by
\* the sweep, while the request waited in get_gemini_response, the attempt
\* that follows does not succeed with an answer made from the removed
\* conversation.
C21_AppendNotFound ==
    [][(/\ last'.op = "attempt"
        /\ handlers' # handlers
        /\ conversation_key(last'.hr.user) \notin DOMAIN conversations)
         => last'.hr.outcome # "ok"]_vars

\* The exchanges in a history, after the template: the number of them, and
\* the question of the i-th.
Exchanges(hist) == (Len(hist) - Len(bot_template)) \div 2

QuestionOf(hist, i) == hist[Len(bot_template) + 2 * i - 1][2]

\* C22: without a deletion, a user's requests all use the conversation the
\* first of them created from the template: the entry of the store stays the
\* same, every answered request appends its exchange (question, then answer)
\* to the history it found and no other step changes a history, so that the
\* history is the template followed by the exchanges of the user's answered
\* requests in the order of the requests.
C22_SessionAccumulates ==
    /\ [](\A k \in DOMAIN conversations :
            LET hist == chats[conversations[k].chat].history
            IN  /\ BeginsWith(hist, bot_template)
                /\ Len(hist) = Len(bot_template) + 2 * Exchanges(hist)
                /\ \A i \in 1..Exchanges(hist) :
                      /\ hist[Len(bot_template) + 2 * i - 1]
                            = <<"user", QuestionOf(hist, i)>>
                      /\ hist[Len(bot_template) + 2 * i]
                            = <<"model", QuestionOf(hist, i)>>
                      /\ QuestionOf(hist, i) \in 1..nreq
                      /\ i > 1 => QuestionOf(hist, i - 1) < QuestionOf(hist, i))
    /\ [][/\ \A k \in DOMAIN conversations :
               /\ k \in DOMAIN conversations'
               /\ conversations'[k] = conversations[k]
               /\ (~IsAttempt(last') \/ handlers' = handlers
                      \/ k # conversation_key(last'.hr.user))
                    => chats'[conversations'[k].chat]
                         = chats[conversations[k].chat]
          /\ (IsAttempt(last') /\ handlers' # handlers)
               => LET k == conversation_key(last'.hr.user)
                      q == last'.hr.q
                      old == IF k \in DOMAIN conversations
                             THEN chats[conversations[k].chat].history
                             ELSE bot_template
                  IN  /\ k \in DOMAIN conversations'
                      /\ conversations'[k].chat = last'.hr.conv
                      /\ chats'[conversations'[k].chat].history
                           = IF last'.result = "ok"
                             THEN old \o << <<"user", q>>, <<"model", q>> >>
                             ELSE old]_vars

\* The second answered request of a user has added its exchange after the
\* exchange of the first.
C22_Witness ==
    /\ IsAttempt(last) /\ last.result = "ok"
    /\ \E k \in DOMAIN conversations :
          LET hist == chats[conversations[k].chat].history
          IN  /\ k = conversation_key(last.hr.user)
              /\ Exchanges(hist) = 2
              /\ QuestionOf(hist, 1) < QuestionOf(hist, 2)
              /\ QuestionOf(hist, 2) = last.hr.q

\* C23: while a handler sleeps between two attempts, the other handlers go
\* on: a request, of the same user or of another, can arrive and be put to
\* the limiters, a handler inside typing() can call get_conversation, and a
\* handler with its conversation can call the service, whatever the answer.
C23_SleepDoesNotBlock ==
    \A h, g \in DOMAIN handlers :
        (handlers[h].pc = "sleep" /\ g # h)
          => /\ (/\ handlers[g].pc = "idle"
                 /\ \A f \in 1..(g - 1) : handlers[f].pc # "idle"
                 /\ nreq < MaxRequests)
                  => \A u \in Users : ENABLED Start(g, u, FALSE)
             /\ handlers[g].pc = "typing"
                  => /\ \A ok \in BOOLEAN : ENABLED AskGetConversation(g, ok)
                     /\ \A r \in Results : ENABLED MentionAttempt(g, TRUE, r)
             /\ handlers[g].pc = "processing"
                  => \A r \in Results : ENABLED Attempt(g, r)

\* While the first handler sleeps before its third attempt, a second request
\* of the same user has passed the limiters and has been answered.
C23_Witness ==
    /\ handlers[1].pc = "sleep" /\ Len(handlers[1].sleeps) = 2
    /\ now < handlers[1].wake
    /\ last.op \in {"attempt", "mention_attempt"} /\ last.h = 2
    /\ last.hr.user = handlers[1].user
    /\ last.hr.outcome = "ok"
    /\ handlers[2].pc = "idle"

\* C30: the call to the service is a point where the handler is suspended:
\* while the call of one handler is outstanding, the event loop can run the
\* others: a new request reaches the limiters, a handler inside typing()
\* calls get_conversation, a handler with its conversation makes its own
\* call, and >forget deletes from the store.
C30_CallIsSuspensionPoint ==
    \A h, g \in DOMAIN handlers :
        (handlers[h].pc = "calling" /\ g # h)
          => /\ (/\ handlers[g].pc = "idle"
                 /\ \A f \in 1..(g - 1) : handlers[f].pc # "idle"
                 /\ nreq < MaxRequests)
                  => \A u \in Users : ENABLED CallStart(g, u)
             /\ handlers[g].pc = "typing"
                  => ENABLED CallGetConversation(g, TRUE)
             /\ handlers[g].pc = "processing"
                  => ENABLED CallBegin(g)
             /\ \A u \in Users : ENABLED CallForget(u)

\* C31: no exchange goes to a conversation that has left the store: when an
\* attempt is answered, the conversation the handler appends to is the one
\* the store holds for the user at that moment; and two handlers at work for
\* one user hold the same conversation.
C31_NoDetachedAppend ==
    [][/\ (IsAttempt(last') /\ handlers' # handlers /\ last'.result = "ok")
            => LET k == conversation_key(last'.hr.user)
               IN  /\ k \in DOMAIN conversations'
                   /\ conversations'[k].chat = last'.hr.conv
       /\ \A h, g \in DOMAIN handlers' :
             (/\ handlers'[h].user = handlers'[g].user
              /\ handlers'[h].conv # NoChat
              /\ handlers'[g].conv # NoChat)
               => handlers'[h].conv = handlers'[g].conv]_vars

\* C32: with time advancing and the sweep running at its interval, every
\* conversation leaves the store, used or not: it is never older than 7 days
\* and one interval, a conversation over age has not yet met a sweep since
\* it went over age, and a conversation created early enough for the sweep
\* that follows its 7 days to fall within the time observed is removed.
C32_EventualEviction ==
    /\ [](\A k \in DOMAIN conversations :
            /\ Age(conversations, k, now) <= SessionTTL + ReapInterval
            /\ (Age(conversations, k, now) > SessionTTL /\ next_reap > 0)
                 => (next_reap - ReapInterval) - conversations[k].created_at
                       <= SessionTTL)
    /\ \A u \in Users, c \in 0..MaxTime :
          (/\ conversation_key(u) \in DOMAIN conversations
           /\ conversations[conversation_key(u)].created_at = c
           /\ c + SessionTTL + ReapInterval <= MaxTime)
            ~> ~(/\ conversation_key(u) \in DOMAIN conversations
                 /\ conversations[conversation_key(u)].created_at = c)

\* The sweep has removed the conversation of a user whose handler, asleep
\* between two attempts, still holds it.
C32_Witness ==
    /\ last.op = "reaper" /\ last.reset_count >= 1
    /\ \E h \in DOMAIN handlers :
          /\ handlers[h].pc = "sleep"
          /\ chats[handlers[h].conv].deleted
          /\ conversation_key(handlers[h].user) \notin DOMAIN conversations

\* C33: >expiry (and the expiry line of >status) answers that there is no
\* conversation when the user has none, and otherwise with the time left,
\* created_at + 7 days - now, which is not negative for any conversation
\* that can be in the store when the question is asked.
C33_ExpiryNonNegative ==
    last.op \in {"expiry", "status"}
      => LET k == conversation_key(last.user)
         IN  /\ last.ret.active = (k \in DOMAIN conversations)
             /\ last.ret.active
                  => /\ last.ret.left
                          = conversations[k].created_at + SessionTTL - now
                     /\ last.ret.left >= 0

\* C34: one message, one admission: a message causes at most one add_call
\* on the user limiter, at most one on the global limiter and at most one
\* get_gemini_response, a command that mentions the bot included; and a
\* mention with nothing beside it causes no get_gemini_response.
C34_OneRequestOneAdmission ==
    \A i \in 1..Len(log) :
        /\ log[i].user_calls <= 1
        /\ log[i].global_calls <= 1
        /\ log[i].sends <= 1
        /\ log[i].empty => log[i].sends = 0

====
